---- MODULE Spec2Model ----
(***************************************************************************)
(* A model of the UPS patch applier of bryceberger/ups (ups/src/lib.rs):   *)
(* the variable-length integer codec read_vuint, the parser parse_patch,   *)
(* the record iterator UpsSectionIter and the pipeline apply_patch_with.   *)
(*                                                                         *)
(* Bytes are integers 0..255.  Machine words (usize, u32) are the sets of  *)
(* the positions of their 1 bits, bit 0 the least significant: 5 is        *)
(* {0, 2}.  That keeps the 64-bit width of usize and the 32-bit width of   *)
(* the checksums exact, beyond the range of the integers TLC computes      *)
(* with, and makes wrap-around and overflow visible.                       *)
(***************************************************************************)
EXTENDS Integers, Sequences, FiniteSets, TLC

VARIABLES
    overflow_checks, \* the build: TRUE = arithmetic overflow panics (debug), FALSE = it wraps (release)
    source,          \* apply_patch_with: the caller's source bytes
    patch,           \* apply_patch_with: the patch bytes
    skip_crc,        \* Options.skip_crc
    pc,              \* the position of apply_patch_with in its pipeline
    p,               \* the UpsPatch parse_patch returned
    data,            \* UpsSectionIter.data (the body)
    offset,          \* UpsSectionIter.offset
    target,          \* the working buffer
    write_offset,    \* the fold's accumulator (a usize)
    result,          \* what apply_patch_with returned: "Ok", an Error, "panic", or "running"
    input,           \* the slice read_vuint is called on
    ret,             \* what the last call of read_vuint / next returned
    sections         \* the UpsSections yielded so far, in order

vars == <<overflow_checks, source, patch, skip_crc, pc, p, data, offset,
          target, write_offset, result, input, ret, sections>>

(***************************************************************************)
(* Words as sets of bit positions.                                        *)
(***************************************************************************)

\* the width of usize on the 64-bit targets the crate is built for
UsizeBits == 64

Pow2(n) == 2 ^ n

\* the bits of every byte
ByteBits == [n \in 0..255 |-> {i \in 0..7 : (n \div Pow2(i)) % 2 = 1}]

\* the bits of a small natural number (a byte, a length, an index)
Bits(n) == IF n < 256 THEN ByteBits[n] ELSE {i \in 0..30 : (n \div Pow2(i)) % 2 = 1}

Max(S) == CHOOSE x \in S : \A y \in S : y <= x

RECURSIVE SumPow2(_)
SumPow2(S) == IF S = {} THEN 0 ELSE LET b == Max(S) IN Pow2(b) + SumPow2(S \ {b})

\* a word below 2^31 as a natural number
Nat31(w) == SumPow2(w)

IsSmall(w) == \A b \in w : b < 31

SymDiff(a, b) == (a \ b) \cup (b \ a)

\* a < b on words of any width
WordLt(a, b) == a # b /\ Max(SymDiff(a, b)) \in b

WordLe(a, b) == a = b \/ WordLt(a, b)

RECURSIVE AddFrom(_, _, _, _, _)
AddFrom(a, b, i, carry, top) ==
    IF i > top
    THEN IF carry = 1 THEN {i} ELSE {}
    ELSE LET s == (IF i \in a THEN 1 ELSE 0) + (IF i \in b THEN 1 ELSE 0) + carry
         IN  (IF s % 2 = 1 THEN {i} ELSE {}) \cup AddFrom(a, b, i + 1, s \div 2, top)

\* a + b, exact (no width)
AddExact(a, b) == IF b = {} THEN a ELSE IF a = {} THEN b
                  ELSE AddFrom(a, b, 0, 0, Max(a \cup b))

Trunc(w, width) == {b \in w : b < width}

Panic == [tag |-> "Panic"]

\* the exact sum as the machine word holds it
checked_add(exact, checks) ==
    IF exact = Trunc(exact, UsizeBits) THEN [tag |-> "Ok", val |-> exact]
    ELSE IF checks THEN Panic
    ELSE [tag |-> "Ok", val |-> Trunc(exact, UsizeBits)]

\* usize + usize: an overflow panics where overflow checks are on and wraps otherwise
usize_add(a, b, checks) == checked_add(AddExact(a, b), checks)

\* usize << shift: a shift of the width or more panics where overflow checks are on
\* and is taken modulo the width otherwise; bits shifted out are dropped silently
usize_shl(a, shift, checks) ==
    IF shift >= UsizeBits /\ checks THEN Panic
    ELSE [tag |-> "Ok", val |-> Trunc({b + (shift % UsizeBits) : b \in a}, UsizeBits)]

(***************************************************************************)
(* read_vuint                                                              *)
(***************************************************************************)

HighBit(x) == x >= 128

\* what a byte adds before the shift: x & 0x7f for the last byte, x | 0x80 for the others
vuint_operand(x) == IF HighBit(x) THEN x % 128 ELSE x + 128

RECURSIVE vuint_fold(_, _, _, _)
\* the closure of the try_fold on byte x at index idx, given the shifted operand
vuint_step(in, idx, acc, x, shl, checks) ==
    IF shl.tag = "Panic" THEN Panic
    ELSE LET sum == usize_add(acc, shl.val, checks)
         IN  IF sum.tag = "Panic" THEN Panic
             ELSE IF HighBit(x)
                  THEN [tag |-> "Some", consumed |-> idx + 1, value |-> sum.val]
                  ELSE vuint_fold(in, idx + 1, sum.val, checks)

\* the try_fold of read_vuint from index idx (0-based) with accumulator acc
vuint_fold(in, idx, acc, checks) ==
    IF idx >= Len(in) THEN [tag |-> "None"]
    ELSE vuint_step(in, idx, acc, in[idx + 1],
                    usize_shl(Bits(vuint_operand(in[idx + 1])), idx * 7, checks), checks)

\* -> None, Some (consumed bytes, value), or a panic
read_vuint(in, checks) == vuint_fold(in, 0, {}, checks)

(***************************************************************************)
(* Bytes, slices and the checksum                                          *)
(***************************************************************************)

\* s[from..to) with 0-based bounds, as Rust slices it
Slice(s, from, to) == SubSeq(s, from + 1, to)

ByteXor(a, b) == Nat31(SymDiff(ByteBits[a], ByteBits[b]))

\* u32::from_le_bytes
u32_from_le_bytes(bs) == UNION {{b + 8 * (i - 1) : b \in ByteBits[bs[i]]} : i \in 1..4}

\* u32::to_le_bytes (what a patch writer stores)
u32_to_le_bytes(w) ==
    [i \in 1..4 |-> Nat31({b - 8 * (i - 1) : b \in {c \in w : c \div 8 = i - 1}})]

\* the reflected polynomial 0xEDB88320 of CRC_32_ISO_HDLC
CrcPoly == {5, 8, 9, 15, 19, 20, 21, 23, 24, 26, 27, 29, 30, 31}

AllOnes32 == 0..31

\* one round of the reflected shift register
crc_round(c) ==
    IF 0 \in c THEN SymDiff({b - 1 : b \in c \ {0}}, CrcPoly) ELSE {b - 1 : b \in c \ {0}}

\* the byte table of the algorithm: eight rounds on each byte
CrcTable ==
    [b \in 0..255 |->
        crc_round(crc_round(crc_round(crc_round(
        crc_round(crc_round(crc_round(crc_round(ByteBits[b]))))))))]

\* the register after one more byte
crc_byte(c, x) ==
    SymDiff({b - 8 : b \in {h \in c : h >= 8}},
            CrcTable[Nat31(SymDiff({b \in c : b < 8}, ByteBits[x]))])

RECURSIVE crc_update(_, _)
\* the register after the first i bytes
crc_update(bytes, i) ==
    IF i = 0 THEN AllOnes32 ELSE crc_byte(crc_update(bytes, i - 1), bytes[i])

\* crc::Crc::<u32>::new(&CRC_32_ISO_HDLC).checksum(data)
checksum(bytes) == SymDiff(crc_update(bytes, Len(bytes)), AllOnes32)

\* a verification that accepts every checksum
verify_crc_any(bytes, expected) == TRUE

verify_crc(bytes, expected) == checksum(bytes) = expected

\* an xor that leaves the slice as it was
xor_slice_none(left, right) == left

\* left[i] ^= right[i] over the zip of the two: the shorter one ends it
xor_slice(left, right) ==
    [i \in 1..Len(left) |-> IF i <= Len(right) THEN ByteXor(left[i], right[i]) ELSE left[i]]

(***************************************************************************)
(* parse_patch                                                             *)
(***************************************************************************)

\* b"UPS1"
Magic == <<85, 80, 83, 49>>

Err(e) == [tag |-> "Err", err |-> e]

\* lines 65-80: the length check, the three checksums and the body, given both sizes
parse_footer(pat, s, t) ==
    IF t.tag = "Panic" THEN Panic
    ELSE IF t.tag = "None" THEN Err("MalformedPatch")
    ELSE IF Len(pat) < 4 + s.consumed + t.consumed + 12 THEN Err("MalformedPatch")
    ELSE [tag  |-> "Ok",
          p    |-> [source_size |-> s.value,
                    target_size |-> t.value,
                    source_crc  |-> u32_from_le_bytes(Slice(pat, Len(pat) - 12, Len(pat) - 8)),
                    target_crc  |-> u32_from_le_bytes(Slice(pat, Len(pat) - 8, Len(pat) - 4)),
                    patch_crc   |-> u32_from_le_bytes(Slice(pat, Len(pat) - 4, Len(pat)))],
          data |-> Slice(pat, 4 + s.consumed + t.consumed, Len(pat) - 12)]

\* a parser that takes a missing size for a missing header
parse_sizes_header(pat, s, checks) == Err("MissingHeader")

\* line 64: target_size, given what read_vuint returned for source_size
parse_sizes(pat, s, checks) ==
    IF s.tag = "Panic" THEN Panic
    ELSE IF s.tag = "None" THEN Err("MalformedPatch")
    ELSE parse_footer(pat, s, read_vuint(Slice(pat, 4 + s.consumed, Len(pat)), checks))

\* a parser that does not look at the first four bytes
parse_patch_any_header(pat, checks) ==
    parse_sizes(pat, read_vuint(Slice(pat, 4, Len(pat)), checks), checks)

parse_patch(pat, checks) ==
    IF Len(pat) < 4 \/ Slice(pat, 0, 4) # Magic THEN Err("MissingHeader")
    ELSE parse_sizes(pat, read_vuint(Slice(pat, 4, Len(pat)), checks), checks)

(***************************************************************************)
(* UpsSectionIter                                                          *)
(***************************************************************************)

\* the offsets (0-based) at or after begin that hold a zero byte
ZeroesFrom(d, begin) == {z \in begin..(Len(d) - 1) : d[z + 1] = 0}

Min(S) == CHOOSE x \in S : \A y \in S : x <= y

\* lines 137-146: the scan from begin, given the zero bytes ahead of it
next_scan(d, take, begin, zs) ==
    IF zs = {} THEN [tag |-> "None", offset |-> Len(d)]
    ELSE [tag    |-> "Some",
          take   |-> take,
          xor    |-> Slice(d, begin, Min(zs) + 1),
          offset |-> Min(zs) + 1]

\* lines 134-146, given what read_vuint returned for take
next_take(d, off, v) ==
    IF v.tag = "Panic" THEN Panic
    ELSE IF v.tag = "None" THEN [tag |-> "None", offset |-> off]
    ELSE next_scan(d, v.value, off + v.consumed, ZeroesFrom(d, off + v.consumed))

\* UpsSectionIter::next on (data, offset): the item and the offset it leaves
UpsSectionIter_next(d, off, checks) ==
    next_take(d, off, read_vuint(Slice(d, off, Len(d)), checks))

(***************************************************************************)
(* apply_patch_with                                                        *)
(***************************************************************************)

WordMax(a, b) == IF WordLt(a, b) THEN b ELSE a

\* a resize that fills with 0xff
resize_ff(v, n) == [i \in 1..n |-> IF i <= Len(v) THEN v[i] ELSE 255]

\* Vec::resize(n, 0)
resize(v, n) == [i \in 1..n |-> IF i <= Len(v) THEN v[i] ELSE 0]

\* a closure that returns the accumulator it was given as 0
closure_ret_zero(tgt, next) ==
    IF next.tag = "Panic" THEN Panic
    ELSE [tag |-> "Ok", target |-> tgt, write_offset |-> {}]

\* line 40: the accumulator the closure returns
closure_ret(tgt, next) ==
    IF next.tag = "Panic" THEN Panic
    ELSE [tag |-> "Ok", target |-> tgt, write_offset |-> next.val]

\* lines 39-40, given write_offset + it.take
closure_xor(tgt, it, start, checks) ==
    IF start.tag = "Panic" THEN Panic
    ELSE IF ~IsSmall(start.val) \/ Nat31(start.val) > Len(tgt) THEN Panic
    ELSE closure_ret(Slice(tgt, 0, Nat31(start.val))
                        \o xor_slice(Slice(tgt, Nat31(start.val), Len(tgt)), it.xor),
                     usize_add(start.val, Bits(Len(it.xor)), checks))

\* the fold's closure: the working buffer and the accumulator after one section
fold_closure(tgt, wo, it, checks) ==
    closure_xor(tgt, it, usize_add(wo, it.take, checks), checks)

RECURSIVE fold(_, _, _, _, _)
\* the rest of the fold after the closure ran on one section
fold_rest(d, off, c, checks) ==
    IF c.tag = "Panic" THEN Panic
    ELSE fold(c.target, c.write_offset, d, off, checks)

\* the fold on what the iterator returned
fold_item(tgt, wo, d, it, checks) ==
    IF it.tag = "Panic" THEN Panic
    ELSE IF it.tag = "None" THEN [tag |-> "Ok", target |-> tgt]
    ELSE fold_rest(d, it.offset, fold_closure(tgt, wo, it, checks), checks)

\* it.fold(0, closure) from the iterator state (d, off): the buffer it leaves
fold(tgt, wo, d, off, checks) ==
    fold_item(tgt, wo, d, UpsSectionIter_next(d, off, checks), checks)

Outcome(r, t) == [result |-> r, target |-> t]

\* lines 43-47, given what the fold left
apply_folded(skip, pp, f) ==
    IF f.tag = "Panic" THEN Outcome("panic", <<>>)
    ELSE IF ~skip /\ ~verify_crc(f.target, pp.target_crc)
         THEN Outcome("CrcMismatchTarget", <<>>)
    ELSE Outcome("Ok", f.target)

\* lines 29-47, given what parse_patch returned
apply_parsed(skip, src, pat, pr, checks) ==
    IF pr.tag = "Panic" THEN Outcome("panic", <<>>)
    ELSE IF pr.tag = "Err" THEN Outcome(pr.err, <<>>)
    ELSE IF ~skip /\ ~verify_crc(src, pr.p.source_crc)
         THEN Outcome("CrcMismatchOriginal", <<>>)
    ELSE IF ~skip /\ ~verify_crc(Slice(pat, 0, Len(pat) - 4), pr.p.patch_crc)
         THEN Outcome("CrcMismatchPatch", <<>>)
    ELSE apply_folded(skip, pr.p,
                      fold(resize(src, Nat31(WordMax(pr.p.source_size, pr.p.target_size))),
                           {}, pr.data, 0, checks))

\* apply_patch_with as a function of its arguments: the result and, for Ok, the buffer
apply_patch_with(skip, src, pat, checks) ==
    apply_parsed(skip, src, pat, parse_patch(pat, checks), checks)

(***************************************************************************)
(* The inputs the model draws from                                         *)
(***************************************************************************)

\* the longest source buffer, and the largest declared source_size / target_size
MaxLen == 2

\* the longest patch body drawn byte by byte
MaxBody == 4

\* the longest run of one repeated byte in a raw patch or slice
MaxRun == 14

Rep(c, n) == [i \in 1..n |-> c]

SeqsUpTo(S, n) == UNION {[1..k -> S] : k \in 0..n}

\* the source of length n: "A", "AB", ... (a different byte at every index)
SourceOf(n) == [i \in 1..n |-> 64 + i]

Sources == {SourceOf(n) : n \in 0..MaxLen}

\* a size below 128 as the one-byte varint a patch writer stores
SizeByte(n) == 128 + n

\* body bytes: 0 ends an xor span and continues a varint; 0x80 and 0x81 are the
\* varints 0 and 1, and non-zero xor bytes
BodyBytes == {0, 128, 129}

Bodies == SeqsUpTo(BodyBytes, MaxBody)

\* a word that differs from w
Flip(w) == SymDiff(w, {0})

\* the buffer the fold leaves, or nothing
BufferOf(f) == IF f.tag = "Ok" THEN f.target ELSE <<>>

\* the buffer the patch is meant to produce from src
Intended(src, n, body) == BufferOf(fold(resize(src, n), {}, body, 0, FALSE))

\* the checksum a patch stores for bytes: the right one or not
Stored(bytes, ok) == u32_to_le_bytes(IF ok THEN checksum(bytes) ELSE Flip(checksum(bytes)))

\* the patch with its last word: the checksum of all before it
Seal(most, okP) == most \o Stored(most, okP)

\* a patch with the given sizes and body; each stored checksum is the right one or not
MakePatch(src, ss, ts, body, okS, okT, okP) ==
    Seal(Magic \o <<SizeByte(ss), SizeByte(ts)>> \o body
            \o Stored(src, okS)
            \o Stored(Intended(src, IF ss > ts THEN ss ELSE ts, body), okT),
         okP)

\* headers: the magic, its proper prefixes, and two near misses
Headers == {Slice(Magic, 0, k) : k \in 0..4} \cup {<<85, 80, 83, 50>>, <<88, 80, 83, 49>>}

\* raw patches: a header, then a run of one varint continuation byte between
\* short runs of the terminal byte 0x80
RawPatches ==
    {h \o a \o Rep(c, n) \o b :
        h \in Headers, a \in SeqsUpTo({128}, 2), c \in {0, 127},
        n \in 0..MaxRun, b \in SeqsUpTo({128}, 2)}

\* the scenario of the specification: source "AAAA", sizes 4 and 4, one record
\* take = 0, xor = [0x01, 0x00]
ScenarioSource == <<65, 65, 65, 65>>

ScenarioPatch == MakePatch(ScenarioSource, 4, 4, <<128, 1, 0>>, TRUE, TRUE, TRUE)

SmallSizes(pr) ==
    pr.tag = "Ok" =>
        /\ WordLe(pr.p.source_size, Bits(MaxLen + 2))
        /\ WordLe(pr.p.target_size, Bits(MaxLen + 2))

\* sizes the model can allocate a working buffer for
SizesInBounds(pat) == SmallSizes(parse_patch(pat, FALSE))

NoPatch == [source_size |-> {}, target_size |-> {}, source_crc |-> {},
            target_crc |-> {}, patch_crc |-> {}]

NotCalled == [tag |-> "NotCalled"]

\* the state at the call of apply_patch_with(Options {skip_crc}, source, patch)
\* in one of the given builds
Call(src, pat, builds) ==
    /\ source = src
    /\ patch = pat
    /\ skip_crc \in BOOLEAN
    /\ overflow_checks \in builds
    /\ pc = "parse"
    /\ p = NoPatch
    /\ data = <<>>
    /\ offset = 0
    /\ target = src
    /\ write_offset = {}
    /\ result = "running"
    /\ input = <<>>
    /\ ret = NotCalled
    /\ sections = <<>>

\* patches a writer built for the source, with the right checksums.  No varint
\* of theirs is long enough to overflow, so both builds take the same steps on
\* them; they run as the overflow-checking build
InitBuilt ==
    \E src \in Sources, ss \in 0..MaxLen, ts \in 0..MaxLen, body \in Bodies :
        Call(src, MakePatch(src, ss, ts, body, TRUE, TRUE, TRUE), {TRUE})

\* the scenario of the specification
InitScenario == Call(ScenarioSource, ScenarioPatch, BOOLEAN)

\* the varint of 2^64 - 1: ten bytes, no partial sum overflows
WrapVarint == <<127, 126, 126, 126, 126, 126, 126, 126, 126, 128>>

\* the varint of 2^64 - 2
NearWrapVarint == <<126, 126, 126, 126, 126, 126, 126, 126, 126, 128>>

\* a first record, then one whose take of 2^64 - 1 brings the sum write_offset +
\* it.take to 2^64 or more
WrapBodies == {<<128, 129, 0>> \o WrapVarint \o <<129, 0>>,
               <<128, 129, 0>> \o NearWrapVarint \o <<129, 0>>,
               <<128, 0>> \o WrapVarint \o <<0>>}

InitWrap ==
    \E body \in WrapBodies :
        Call(SourceOf(2), MakePatch(SourceOf(2), 2, 2, body, TRUE, TRUE, TRUE), BOOLEAN)

Init == InitBuilt \/ InitScenario \/ InitWrap

\* short bodies under every combination of right and wrong stored checksums
InitCrc ==
    \E src \in Sources, ts \in 0..MaxLen, body \in SeqsUpTo(BodyBytes, MaxLen),
       okS \in BOOLEAN, okT \in BOOLEAN, okP \in BOOLEAN :
        Call(src, MakePatch(src, Len(src), ts, body, okS, okT, okP), BOOLEAN)

\* raw patches: missing headers, short patches, runaway varints
InitRaw ==
    \E pat \in RawPatches : SizesInBounds(pat) /\ Call(<<>>, pat, BOOLEAN)

InitChecks == InitCrc \/ InitRaw \/ InitScenario

(***************************************************************************)
(* apply_patch_with, step by step                                          *)
(***************************************************************************)

Finish(r) == result' = r /\ pc' = "done"

\* line 27: parse_patch(patch)?
Parse ==
    /\ pc = "parse"
    /\ LET pr == parse_patch(patch, overflow_checks)
       IN  IF pr.tag = "Ok"
           THEN /\ p' = pr.p
                /\ data' = pr.data
                /\ pc' = IF skip_crc THEN "resize" ELSE "verify_source"
                /\ UNCHANGED result
           ELSE /\ Finish(IF pr.tag = "Err" THEN pr.err ELSE "panic")
                /\ UNCHANGED <<p, data>>
    /\ UNCHANGED <<overflow_checks, source, patch, skip_crc, offset, target,
                   write_offset, input, ret, sections>>

\* line 30: the source against source_crc
VerifySource ==
    /\ pc = "verify_source"
    /\ IF verify_crc(source, p.source_crc)
       THEN pc' = "verify_patch" /\ UNCHANGED result
       ELSE Finish("CrcMismatchOriginal")
    /\ UNCHANGED <<overflow_checks, source, patch, skip_crc, p, data, offset,
                   target, write_offset, input, ret, sections>>

\* lines 31-32: the patch without its last 4 bytes against patch_crc
VerifyPatch ==
    /\ pc = "verify_patch"
    /\ IF verify_crc(Slice(patch, 0, Len(patch) - 4), p.patch_crc)
       THEN pc' = "resize" /\ UNCHANGED result
       ELSE Finish("CrcMismatchPatch")
    /\ UNCHANGED <<overflow_checks, source, patch, skip_crc, p, data, offset,
                   target, write_offset, input, ret, sections>>

\* lines 35-36: the working buffer is the source resized, zero filled
Resize ==
    /\ pc = "resize"
    /\ target' = resize(source, Nat31(WordMax(p.source_size, p.target_size)))
    /\ write_offset' = {}
    /\ pc' = "fold"
    /\ UNCHANGED <<overflow_checks, source, patch, skip_crc, p, data, offset,
                   result, input, ret, sections>>

\* lines 38-41: the iterator yields a section and the closure applies it
FoldSection ==
    /\ pc = "fold"
    /\ LET it == UpsSectionIter_next(data, offset, overflow_checks)
       IN  /\ it.tag = "Some"
           /\ LET c == fold_closure(target, write_offset, it, overflow_checks)
              IN  IF c.tag = "Ok"
                  THEN /\ target' = c.target
                       /\ write_offset' = c.write_offset
                       /\ UNCHANGED <<pc, result>>
                  ELSE /\ Finish("panic")
                       /\ UNCHANGED <<target, write_offset>>
           /\ offset' = it.offset
           /\ sections' = Append(sections, [take |-> it.take, xor |-> it.xor])
    /\ UNCHANGED <<overflow_checks, source, patch, skip_crc, p, data, input, ret>>

\* lines 38-47: the iterator ends (or read_vuint aborts in it); without checksums
\* the buffer is returned
FoldEnd ==
    /\ pc = "fold"
    /\ LET it == UpsSectionIter_next(data, offset, overflow_checks)
       IN  /\ it.tag # "Some"
           /\ IF it.tag = "Panic"
              THEN Finish("panic") /\ UNCHANGED offset
              ELSE /\ offset' = it.offset
                   /\ IF skip_crc THEN Finish("Ok")
                      ELSE pc' = "verify_target" /\ UNCHANGED result
    /\ UNCHANGED <<overflow_checks, source, patch, skip_crc, p, data, target,
                   write_offset, input, ret, sections>>

\* lines 43-47: the buffer against target_crc, then Ok(target)
VerifyTarget ==
    /\ pc = "verify_target"
    /\ Finish(IF verify_crc(target, p.target_crc) THEN "Ok" ELSE "CrcMismatchTarget")
    /\ UNCHANGED <<overflow_checks, source, patch, skip_crc, p, data, offset,
                   target, write_offset, input, ret, sections>>

Next == Parse \/ VerifySource \/ VerifyPatch \/ Resize \/ FoldSection \/ FoldEnd
        \/ VerifyTarget

Spec == Init /\ [][Next]_vars

\* the pipeline on raw patches and on every combination of stored checksums
SpecChecks == InitChecks /\ [][Next]_vars

(***************************************************************************)
(* read_vuint on its own                                                   *)
(***************************************************************************)

\* the variables of apply_patch_with, at rest
NoCall ==
    /\ source = <<>>
    /\ patch = <<>>
    /\ skip_crc = FALSE
    /\ pc = "none"
    /\ p = NoPatch
    /\ target = <<>>
    /\ write_offset = {}
    /\ result = "none"

\* slices: a run of one continuation byte, then up to two bytes of any kind
VuintInputs ==
    {Rep(c, n) \o t : c \in {0, 127}, n \in 0..MaxRun,
                      t \in SeqsUpTo({0, 127, 128, 130, 255}, 2)}
    \cup {WrapVarint}

InitVuint ==
    /\ NoCall
    /\ overflow_checks \in BOOLEAN
    /\ input \in VuintInputs
    /\ ret = NotCalled
    /\ data = <<>>
    /\ offset = 0
    /\ sections = <<>>

\* read_vuint(input)
CallReadVuint ==
    /\ ret = NotCalled
    /\ ret' = read_vuint(input, overflow_checks)
    /\ UNCHANGED <<overflow_checks, source, patch, skip_crc, pc, p, data, offset,
                   target, write_offset, result, input, sections>>

SpecVuint == InitVuint /\ [][CallReadVuint]_vars

(***************************************************************************)
(* UpsSectionIter on its own                                               *)
(***************************************************************************)

\* bodies: every short one, and runs of a continuation byte before and after
\* complete records
IterInputs ==
    Bodies \cup
    {a \o Rep(c, n) \o b : a \in {<<>>, <<128, 0>>}, c \in {0, 127}, n \in 0..MaxRun,
                           b \in {<<>>, <<128>>, <<128, 0>>, <<128, 129, 0>>}}

InitIter ==
    /\ NoCall
    /\ overflow_checks \in BOOLEAN
    /\ data \in IterInputs
    /\ offset = 0
    /\ sections = <<>>
    /\ ret = NotCalled
    /\ input = <<>>

\* one call of next(); a caller may call again after the end
IterNext ==
    /\ ret.tag # "Panic"
    /\ LET it == UpsSectionIter_next(data, offset, overflow_checks)
       IN  /\ ret' = [tag |-> it.tag]
           /\ offset' = IF it.tag = "Panic" THEN offset ELSE it.offset
           /\ sections' = IF it.tag = "Some"
                          THEN Append(sections, [take |-> it.take, xor |-> it.xor])
                          ELSE sections
    /\ UNCHANGED <<overflow_checks, source, patch, skip_crc, pc, p, data, target,
                   write_offset, result, input>>

SpecIter == InitIter /\ [][IterNext]_vars

(***************************************************************************)
(* The reference the properties compare the program with                   *)
(***************************************************************************)

\* the variants of Error
Errors == {"MissingHeader", "MalformedPatch", "CrcMismatchOriginal",
           "CrcMismatchPatch", "CrcMismatchTarget"}

HeaderOk(pat) == Len(pat) >= 4 /\ <<pat[1], pat[2], pat[3], pat[4]>> = <<85, 80, 83, 49>>

\* max(source_size, target_size) of the parsed patch
FinalLen ==
    IF WordLt(p.source_size, p.target_size) THEN Nat31(p.target_size)
    ELSE Nat31(p.source_size)

\* W[i] (0-based): the source resized to FinalLen with zero fill
W(i) == IF i < Len(source) THEN source[i + 1] ELSE 0

RECURSIVE CursorBefore(_)
\* c_k: the exact sum of take + len(xor) over the records before the k-th
CursorBefore(k) ==
    IF k = 1 THEN {}
    ELSE AddExact(AddExact(CursorBefore(k - 1), sections[k - 1].take),
                  Bits(Len(sections[k - 1].xor)))

\* c_k + r_k.take, exact
SpanAt(k) == AddExact(CursorBefore(k), sections[k].take)

\* c_k + r_k.take as the 64-bit cursor holds it
SpanStart(k) == {b \in SpanAt(k) : b < 64}

\* the xor byte the k-th record applies at index i of the buffer, 0 if none
ByteOf(k, i) ==
    IF /\ IsSmall(SpanStart(k))
       /\ Nat31(SpanStart(k)) <= i
       /\ i < Nat31(SpanStart(k)) + Len(sections[k].xor)
    THEN sections[k].xor[i - Nat31(SpanStart(k)) + 1]
    ELSE 0

RECURSIVE XorUpTo(_, _)
XorUpTo(i, k) == IF k = 0 THEN 0 ELSE ByteXor(XorUpTo(i, k - 1), ByteOf(k, i))

\* the XOR of all the xor bytes the records apply at index i
XorAt(i) == XorUpTo(i, Len(sections))

\* index i is inside the xor span of some record, counted exactly
Covered(i) ==
    \E k \in 1..Len(sections) : \E j \in 0..(Len(sections[k].xor) - 1) :
        AddExact(SpanAt(k), Bits(j)) = Bits(i)

(***************************************************************************)
(* C1                                                                      *)
(***************************************************************************)

\* C1: apply_patch_with finishes with Ok(target) or one of the typed errors; it
\* never aborts in another way (no out-of-range slice, no arithmetic overflow)
C1_TypedOutcome == pc = "done" => result \in {"Ok"} \cup Errors

(***************************************************************************)
(* C2                                                                      *)
(***************************************************************************)

\* the scenario: "AAAA", sizes 4 and 4, one record take = 0, xor = [0x01, 0x00]
ScenarioHolds ==
    source = ScenarioSource /\ patch = ScenarioPatch /\ pc = "done"
        => result = "Ok" /\ target = <<64, 65, 65, 65>>

\* C2 as stated: on Ok, every xor byte of every record is applied at index
\* c_k + take + j of the buffer, and every other index holds W[i]
C2_Reference ==
    /\ result = "Ok" =>
        /\ \A k \in 1..Len(sections) : \A j \in 0..(Len(sections[k].xor) - 1) :
              /\ IsSmall(AddExact(SpanAt(k), Bits(j)))
              /\ Nat31(AddExact(SpanAt(k), Bits(j))) < Len(target)
              /\ target[Nat31(AddExact(SpanAt(k), Bits(j))) + 1]
                    = ByteXor(W(Nat31(AddExact(SpanAt(k), Bits(j)))), sections[k].xor[j + 1])
        /\ \A i \in 0..(Len(target) - 1) : ~Covered(i) => target[i + 1] = W(i)
    /\ ScenarioHolds

\* C2, amended: on Ok the buffer has max(source_size, target_size) bytes and byte i
\* is W[i] XOR every xor byte whose index (c_k + take) mod 2^64 + j is i; xor
\* bytes at or past the end of the buffer are dropped
C2_Applied ==
    /\ result = "Ok" =>
        /\ Len(target) = FinalLen
        /\ \A i \in 0..(Len(target) - 1) : target[i + 1] = ByteXor(W(i), XorAt(i))
    /\ ScenarioHolds

\* an Ok whose last record changes a byte and runs past the end of the buffer
C2_Witness ==
    /\ result = "Ok"
    /\ sections # <<>>
    /\ \E i \in 0..(Len(target) - 1) : XorAt(i) # 0
    /\ IsSmall(SpanStart(Len(sections)))
    /\ Nat31(SpanStart(Len(sections))) + Len(sections[Len(sections)].xor) > Len(target)

(***************************************************************************)
(* C5                                                                      *)
(***************************************************************************)

\* C5 as stated: when target_size > source_size, an Ok buffer has target_size
\* bytes and every byte at i >= source_size is 0 XOR the xor byte applied at i,
\* for a source of any length
C5_GrowthAnySource ==
    result = "Ok" /\ WordLt(p.source_size, p.target_size) =>
        /\ Len(target) = Nat31(p.target_size)
        /\ \A i \in Nat31(p.source_size)..(Len(target) - 1) : target[i + 1] = XorAt(i)

\* C5, amended: the same, where the byte at i >= source_size starts as 0 only
\* past the end of the source; a source longer than source_size keeps its bytes
\* there, and the xor bytes are applied to them
C5_Growth ==
    result = "Ok" /\ WordLt(p.source_size, p.target_size) =>
        /\ Len(target) = Nat31(p.target_size)
        /\ \A i \in Nat31(p.source_size)..(Len(target) - 1) :
              target[i + 1] = IF i < Len(source) THEN ByteXor(source[i + 1], XorAt(i))
                              ELSE XorAt(i)

\* a grown buffer with a non-zero byte rebuilt from zero fill
C5_Witness ==
    /\ result = "Ok"
    /\ WordLt(p.source_size, p.target_size)
    /\ \E i \in Nat31(p.source_size)..(Len(target) - 1) :
          i >= Len(source) /\ XorAt(i) # 0 /\ target[i + 1] = XorAt(i)

(***************************************************************************)
(* C8                                                                      *)
(***************************************************************************)

\* the closure's step on the record the iterator yields next, if there is one
NextRecord == UpsSectionIter_next(data, offset, overflow_checks)

NextCursor == fold_closure(target, write_offset, NextRecord, overflow_checks)

Advances == pc = "fold" /\ NextRecord.tag = "Some" /\ NextCursor.tag = "Ok"

\* the exact sum write_offset + take + len(xor) of the next record
NextSum == AddExact(AddExact(write_offset, NextRecord.take), Bits(Len(NextRecord.xor)))

\* C8 as stated: the cursor starts at 0, every record makes it larger, and after
\* every record it is at most the final length of the buffer
C8_CursorInBuffer ==
    /\ sections = <<>> => write_offset = {}
    /\ Advances => WordLt(write_offset, NextCursor.write_offset)
    /\ pc = "fold" => WordLe(write_offset, Bits(Len(target)))

\* C8, amended: the cursor starts at 0; a record is applied only from an index
\* at most the length of the buffer, so that after it the cursor is at most that
\* length plus len(xor); and every record makes the cursor larger unless the sum
\* write_offset + take wraps at 2^64, which a build without overflow checks allows
C8_Cursor ==
    /\ sections = <<>> => write_offset = {}
    /\ Advances =>
        /\ NextCursor.write_offset = {b \in NextSum : b < 64}
        /\ WordLe(NextCursor.write_offset, Bits(Len(target) + Len(NextRecord.xor)))
        /\ \/ WordLt(write_offset, NextCursor.write_offset)
           \/ ~overflow_checks /\ NextSum # NextCursor.write_offset
    /\ pc = "fold" /\ sections # <<>> =>
        WordLe(write_offset, Bits(Len(target) + Len(sections[Len(sections)].xor)))

\* the cursor is past the end of the buffer after a record
C8_Witness ==
    /\ pc = "fold"
    /\ sections # <<>>
    /\ WordLt(Bits(Len(target)), write_offset)

(***************************************************************************)
(* C3                                                                      *)
(***************************************************************************)

\* the patch passes its own checksum: patch[..len - 4] against the last word
PatchCrcOk == checksum(Slice(patch, 0, Len(patch) - 4)) = p.patch_crc

SourceCrcOk == checksum(source) = p.source_crc

\* the iterator has nothing more to yield
Exhausted == NextRecord.tag = "None"

\* C3: with checksums on, the checks run in the order parse, source checksum,
\* patch checksum, resize and XOR pass, target checksum, and the first that fails
\* is the one reported; the first two checksum errors leave the buffer untouched,
\* the third comes after the whole pass, and Ok means all three passed
C3_CheckOrder ==
    ~skip_crc /\ pc = "done" =>
        /\ parse_patch(patch, overflow_checks).tag = "Err"
              => result = parse_patch(patch, overflow_checks).err
        /\ result \in {"MissingHeader", "MalformedPatch"}
              => parse_patch(patch, overflow_checks) = Err(result)
        /\ parse_patch(patch, overflow_checks).tag = "Ok" =>
              /\ ~SourceCrcOk => result = "CrcMismatchOriginal"
              /\ SourceCrcOk /\ ~PatchCrcOk => result = "CrcMismatchPatch"
              /\ result = "CrcMismatchOriginal" => ~SourceCrcOk
              /\ result = "CrcMismatchPatch" => SourceCrcOk /\ ~PatchCrcOk
              /\ result \in {"CrcMismatchOriginal", "CrcMismatchPatch"}
                    => target = source /\ sections = <<>> /\ write_offset = {}
              /\ result = "CrcMismatchTarget"
                    => /\ SourceCrcOk /\ PatchCrcOk
                       /\ Len(target) = FinalLen
                       /\ Exhausted
                       /\ checksum(target) # p.target_crc
              /\ result = "Ok"
                    => /\ SourceCrcOk /\ PatchCrcOk
                       /\ Exhausted
                       /\ checksum(target) = p.target_crc

\* the source checksum error is reported for a patch whose own checksum is wrong too
C3_Witness ==
    /\ ~skip_crc
    /\ pc = "done"
    /\ result = "CrcMismatchOriginal"
    /\ ~PatchCrcOk
    /\ Len(target) # FinalLen

(***************************************************************************)
(* C4                                                                      *)
(***************************************************************************)

\* other contents for the last 12 bytes of a patch (of 16 bytes or more, so that
\* they do not reach into the header)
OtherFooters == {Rep(0, 12), Rep(128, 12), Rep(255, 12)}

\* the patch with its last 12 bytes replaced
WithFooter(pat, f) == Slice(pat, 0, Len(pat) - 12) \o f

\* what the call returned
Returned == Outcome(result, IF result = "Ok" THEN target ELSE <<>>)

\* C4: skip_crc turns off all three verifications: with it no checksum error is
\* returned and the outcome does not depend on the last 12 bytes of the patch;
\* without it Ok means that all three checksums matched
C4_SkipUniform ==
    /\ skip_crc =>
        result \notin {"CrcMismatchOriginal", "CrcMismatchPatch", "CrcMismatchTarget"}
    /\ skip_crc /\ pc = "done" /\ Len(patch) >= 16 =>
        \A f \in OtherFooters :
            apply_patch_with(TRUE, source, WithFooter(patch, f), overflow_checks) = Returned
    /\ ~skip_crc /\ result = "Ok" =>
        SourceCrcOk /\ PatchCrcOk /\ checksum(target) = p.target_crc

(***************************************************************************)
(* C6                                                                      *)
(***************************************************************************)

\* C6 as stated: every patch shorter than 18 bytes fails with MalformedPatch,
\* whatever its bytes
C6_ShortIsMalformed ==
    Len(patch) < 18 /\ pc # "parse" => pc = "done" /\ result = "MalformedPatch"

\* C6, amended: a patch shorter than 18 bytes is never parsed: it fails with
\* MissingHeader if it does not start with "UPS1", and otherwise with
\* MalformedPatch, or, for a patch of 13 bytes or more in a build with overflow
\* checks, with an arithmetic overflow abort in read_vuint
C6_ShortFails ==
    Len(patch) < 18 /\ pc # "parse" =>
        /\ pc = "done"
        /\ target = source
        /\ IF ~HeaderOk(patch) THEN result = "MissingHeader"
           ELSE \/ result = "MalformedPatch"
                \/ result = "panic" /\ overflow_checks /\ Len(patch) >= 13

\* a short patch with the header and both sizes, failing on its length alone
C6_Witness ==
    /\ pc = "done"
    /\ Len(patch) < 18
    /\ Len(patch) >= 6
    /\ HeaderOk(patch)
    /\ patch[5] >= 128
    /\ patch[6] >= 128
    /\ result = "MalformedPatch"

(***************************************************************************)
(* C7                                                                      *)
(***************************************************************************)

\* C7: a patch whose first 4 bytes are not "UPS1" (or that has fewer than 4)
\* fails in parse_patch with MissingHeader whatever follows, and apply_patch_with
\* returns that error before it looks at a checksum or touches the buffer
C7_MissingHeader ==
    ~HeaderOk(patch) =>
        /\ parse_patch(patch, overflow_checks) = Err("MissingHeader")
        /\ pc \in {"parse", "done"}
        /\ pc = "done" => result = "MissingHeader" /\ target = source /\ p = NoPatch

\* a patch long enough for sizes and footer, with a wrong header
C7_Witness ==
    /\ pc = "done"
    /\ Len(patch) >= 18
    /\ ~HeaderOk(patch)
    /\ result = "MissingHeader"

(***************************************************************************)
(* C9                                                                      *)
(***************************************************************************)

\* the indices (0-based) of the bytes with the high bit set
HighIdx(in) == {k \in 0..(Len(in) - 1) : in[k + 1] >= 128}

\* what byte i adds, before the shift by 7i, when byte k is the last:
\* byte | 0x80, or byte & 0x7f for the last
ExactTerm(in, i, k) == IF i = k THEN in[i + 1] % 128 ELSE (in[i + 1] % 128) + 128

RECURSIVE ExactFrom(_, _, _, _)
\* the bits from 7i up of the sum, in base 128 with a carry, with no bit lost
ExactFrom(in, i, k, carry) ==
    IF i > k THEN {b + 7 * i : b \in Bits(carry)}
    ELSE {b + 7 * i : b \in Bits((ExactTerm(in, i, k) + carry) % 128)}
         \cup ExactFrom(in, i + 1, k, (ExactTerm(in, i, k) + carry) \div 128)

\* the sum over i <= k of what byte i adds, shifted by 7i, as an exact unsigned integer
ExactValue(in, k) == ExactFrom(in, 0, k, 0)

\* C9: read_vuint returns a result iff a byte has its high bit set; then consumed
\* is the index k of the first such byte plus one and value is the exact sum of
\* the shifted bytes up to k, with no wrap-around; otherwise it returns None
C9_ReadVuint ==
    ret # NotCalled =>
        IF HighIdx(input) = {} THEN ret = [tag |-> "None"]
        ELSE ret = [tag      |-> "Some",
                    consumed |-> Min(HighIdx(input)) + 1,
                    value    |-> ExactValue(input, Min(HighIdx(input)))]

(***************************************************************************)
(* C10                                                                     *)
(***************************************************************************)

HighFrom(d, off) == {k \in off..(Len(d) - 1) : d[k + 1] >= 128}

RECURSIVE CompleteRecords(_, _)
\* the longest prefix of complete records of the body d from offset off: a
\* varint that ends, then a span up to and including the first zero byte
CompleteRecords(d, off) ==
    IF HighFrom(d, off) = {} \/ ZeroesFrom(d, Min(HighFrom(d, off)) + 1) = {}
    THEN <<>>
    ELSE <<[take |-> ExactValue(Slice(d, off, Len(d)), Min(HighFrom(d, off)) - off),
            xor  |-> Slice(d, Min(HighFrom(d, off)) + 1,
                           Min(ZeroesFrom(d, Min(HighFrom(d, off)) + 1)) + 1)]>>
         \o CompleteRecords(d, Min(ZeroesFrom(d, Min(HighFrom(d, off)) + 1)) + 1)

IsPrefix(a, b) == Len(a) <= Len(b) /\ a = SubSeq(b, 1, Len(a))

\* C10: the iterator yields, in order, exactly the longest prefix of complete
\* records of the body; it ends without an error, its offset stays within the
\* body, and after it has returned the end every later call returns the end
C10_Iterator ==
    /\ ret.tag # "Panic"
    /\ offset <= Len(data)
    /\ IsPrefix(sections, CompleteRecords(data, 0))
    /\ \A k \in 1..Len(sections) :
          /\ Len(sections[k].xor) >= 1
          /\ \A j \in 1..Len(sections[k].xor) :
                sections[k].xor[j] = 0 <=> j = Len(sections[k].xor)
    /\ ret.tag = "None" =>
          /\ sections = CompleteRecords(data, 0)
          /\ UpsSectionIter_next(data, offset, overflow_checks).tag = "None"

====
